---- MODULE Spec2Model ----
(***************************************************************************)
(* The virtual printer driver of AstroBox                                  *)
(* (src/plugins/virtualcomms/__init__.py): the VirtualComms engine, its    *)
(* threading.Timer callbacks (doConnect, heatupDone) and its two worker    *)
(* threads, TempsChanger and JobSimulator.                                 *)
(*                                                                         *)
(* Threads of the model: the caller thread (the printer manager calling    *)
(* the engine, one call at a time), one timer thread per connect() and per *)
(* successful startPrint(), one thread per TempsChanger and per            *)
(* JobSimulator.  A step of the model is one or a few consecutive source   *)
(* statements of one thread; statements are merged into one step only      *)
(* where no other thread can tell the difference.                          *)
(***************************************************************************)
EXTENDS Integers, Sequences, FiniteSets, TLC

(* ---------------------------------------------------------------------- *)
(* Bounds of the model                                                     *)
(* ---------------------------------------------------------------------- *)
\* connect() calls (each starts one Timer and, when it fires, one TempsChanger)
MaxConnects == 2
\* connect() calls in the specifications that follow one connection
MaxSoloConnects == 1
\* successful startPrint() calls (each starts one Timer and one JobSimulator)
MaxJobs == 3
\* successful startPrint() calls in the specifications that follow one job
MaxSoloJobs == 1
\* largest whole job duration the settings are drawn from
MaxJobLength == 3
\* in the engine specification a TempsChanger stops ticking once an actual
\* temperature has reached this many steps
MaxRampSteps == 1

(* ---------------------------------------------------------------------- *)
(* Program constants                                                       *)
(* ---------------------------------------------------------------------- *)
TempStep == 5
InitialTemp == 25
PrintToolTemp == 210
PrintBedTemp == 60
FilamentPerTick == 10

Channels == {"tool0", "bed"}
Absent == -1
NoRef == 0

Ramps == 1..MaxConnects
Jobs == 1..MaxJobs

\* thread identities
Caller == <<"caller", 0>>
ConnectTimer(i) == <<"doConnect", i>>
JobThread(j) == <<"job", j>>

VARIABLES
    \* VirtualComms
    comm,                \* self._comm
    state,               \* the printer state written by _changePrinterState
    heatingUp,           \* self._heatingUp
    heatingUpTimer,      \* self._heatingUpTimer (NoRef = None)
    printJob,            \* self._printJob (NoRef = None)
    temperatureChanger,  \* self._temperatureChanger (NoRef = None)
    jobLength,           \* self._settings['printJob'] as a fraction <<n, d>>
    \* the host (printer manager)
    shuttingDown,        \* printerManager.shuttingDown
    mcHeating,           \* last value passed to mcHeatingUpUpdate
    printStarted,        \* number of PRINT_STARTED events fired
    snapshot,            \* last (actuals, targets) passed to mcTempUpdate, per ramp
    \* caller thread
    cpc,                 \* position of the caller inside the current call
    cJoin,               \* the thread the caller is joining in disconnect()
    lastResult,          \* how the caller's last call ended
    \* timers
    connectTimer,        \* per connect(): position of its Timer thread
    heatTimer,           \* per startPrint(): position of its Timer thread
    \* TempsChanger instances
    rpc,                 \* thread position
    rampStopped,         \* self._stopped
    targets,             \* self._targets
    actuals,             \* self._actuals
    pending,             \* setTarget calls between line 265 and line 268
    \* JobSimulator instances
    jpc,                 \* thread position
    jobStopped,          \* self._stopped
    pausedEvent,         \* self._pausedEvent is set
    timeElapsed,         \* self._timeElapsed
    filePos,             \* self._filePos
    currentLayer,        \* self._currentLayer
    consumedFilament,    \* self._consumedFilament[0]
    percentCompleted,    \* self._percentCompleted as a fraction <<n, d>>
    printDone,           \* PRINT_DONE events fired by the job
    printFailed,         \* PRINT_FAILED events fired by the job
    \* history kept for the properties
    pauseRequested,      \* last value passed to JobSimulator.setPaused
    cancelledAt,         \* timeElapsed when JobSimulator.cancel was first called
    cancelledInTick      \* the thread was between line 304 and line 307 at that call

engineVars == <<comm, state, heatingUp, heatingUpTimer, printJob, temperatureChanger,
                jobLength, shuttingDown, mcHeating, printStarted>>
callerVars == <<cpc, cJoin, lastResult>>
timerVars == <<connectTimer, heatTimer>>
rampVars == <<rpc, rampStopped, targets, actuals, pending, snapshot>>
jobVars == <<jpc, jobStopped, pausedEvent, timeElapsed, filePos, currentLayer,
             consumedFilament, percentCompleted, printDone, printFailed,
             pauseRequested, cancelledAt, cancelledInTick>>
vars == <<engineVars, callerVars, timerVars, rampVars, jobVars>>

(* ---------------------------------------------------------------------- *)
(* Helpers                                                                 *)
(* ---------------------------------------------------------------------- *)
Threads == {Caller} \cup {ConnectTimer(i) : i \in Ramps} \cup {JobThread(j) : j \in Jobs}

\* a thread inside setTarget cannot do anything else
Free(th) == \A p \in pending : p.th # th

\* PrinterCommsService._changePrinterState(newState)
ChangePrinterState(newState) == state' = newState

\* threading.Thread.isAlive() of a TempsChanger / a JobSimulator
RampAlive(r) == rpc[r] \in {"loop", "body"}
JobAlive(j) == jpc[j] \notin {"none", "dead", "crashed"}

\* first index of a function over 1..n whose entry is "none" (0 when all are used)
FirstUnused(f, n) == IF \E i \in 1..n : f[i] = "none"
                     THEN CHOOSE i \in 1..n : f[i] = "none" /\ \A k \in 1..(i-1) : f[k] # "none"
                     ELSE 0

(* ---------------------------------------------------------------------- *)
(* TempsChanger                                                            *)
(* ---------------------------------------------------------------------- *)
\* a TempsChanger that keeps cooling a channel that has reached its target
NudgeNoRest(actual, target) ==
    IF actual >= target THEN actual - TempStep
    ELSE actual + TempStep

\* lines 250-254: one channel's actual moved toward its target
Nudge(actual, target) ==
    IF actual > target THEN actual - TempStep
    ELSE IF actual < target THEN actual + TempStep
    ELSE actual

\* TempsChanger.setTarget, line 265; lines 267-268 follow as separate steps of
\* the calling thread when the channel has no actual yet
SetTarget(th, r, ch, v) ==
    /\ targets' = [targets EXCEPT ![r][ch] = v]
    /\ pending' = IF actuals[r][ch] = Absent
                  THEN pending \cup {[th |-> th, r |-> r, ch |-> ch, ph |-> "check"]}
                  ELSE pending
    /\ UNCHANGED actuals

\* TempsChanger.setTarget, line 267 (ph = "check") and line 268 (ph = "set")
FinishSetTarget(th) ==
    \E p \in pending :
        /\ p.th = th
        /\ IF p.ph = "check"
           THEN /\ pending' = IF actuals[p.r][p.ch] = Absent
                              THEN (pending \ {p}) \cup {[p EXCEPT !.ph = "set"]}
                              ELSE pending \ {p}
                /\ UNCHANGED actuals
           ELSE /\ actuals' = [actuals EXCEPT ![p.r][p.ch] = 0]
                /\ pending' = pending \ {p}
        /\ UNCHANGED <<engineVars, callerVars, timerVars, jobVars,
                       rpc, rampStopped, targets, snapshot>>

\* VirtualComms.setTemperature called where no other thread can clear
\* self._temperatureChanger between line 149 and line 150
SetTemperature(th, ch, v) ==
    IF temperatureChanger = NoRef
    THEN UNCHANGED <<targets, actuals, pending>>
    ELSE SetTarget(th, temperatureChanger, ch, v)

\* TempsChanger.run, line 248 with self._stopped false: enter the loop body
RampEnter(r) ==
    /\ rpc[r] = "loop"
    /\ ~rampStopped[r]
    /\ rpc' = [rpc EXCEPT ![r] = "body"]
    /\ UNCHANGED <<engineVars, callerVars, timerVars, jobVars,
                   rampStopped, targets, actuals, pending, snapshot>>

\* TempsChanger.run, line 248 with self._stopped true, line 259: the thread ends
RampExit(r) ==
    /\ rpc[r] = "loop"
    /\ rampStopped[r]
    /\ rpc' = [rpc EXCEPT ![r] = "dead"]
    /\ UNCHANGED <<engineVars, callerVars, timerVars, jobVars,
                   rampStopped, targets, actuals, pending, snapshot>>

\* channels the loops at lines 249 and 274 iterate over
TargetKeys(r) == {ch \in Channels : targets[r][ch] # Absent}

\* TempsChanger._updateTemps: the (actual, target) pairs handed to mcTempUpdate
UpdateTemps(r, act) ==
    [ch \in Channels |-> IF ch \in TargetKeys(r) THEN <<act[ch], targets[r][ch]>>
                                               ELSE <<Absent, Absent>>]

\* TempsChanger.run, lines 249-257: one tick.  self._actuals[t] of a channel
\* that has a target but no actual yet raises KeyError and ends the thread.
RampBody(r) ==
    /\ rpc[r] = "body"
    /\ IF \E ch \in TargetKeys(r) : actuals[r][ch] = Absent
       THEN /\ rpc' = [rpc EXCEPT ![r] = "crashed"]
            /\ UNCHANGED <<actuals, snapshot>>
       ELSE /\ actuals' = [actuals EXCEPT ![r] =
                              [ch \in Channels |->
                                  IF ch \in TargetKeys(r)
                                  THEN Nudge(actuals[r][ch], targets[r][ch])
                                  ELSE actuals[r][ch]]]
            /\ snapshot' = UpdateTemps(r, actuals'[r])
            /\ rpc' = [rpc EXCEPT ![r] = "loop"]
    /\ UNCHANGED <<engineVars, callerVars, timerVars, jobVars,
                   rampStopped, targets, pending>>

\* the engine specification lets a ramp tick only while its actuals are low
WithinRampBound(r) ==
    \A ch \in Channels : actuals[r][ch] < MaxRampSteps * TempStep

(* ---------------------------------------------------------------------- *)
(* VirtualComms.connect and its Timer callback doConnect                    *)
(* ---------------------------------------------------------------------- *)
\* lines 54-55 and 67-68; at most n calls are followed
Connect(n) ==
    /\ cpc = "idle"
    /\ FirstUnused(connectTimer, n) # 0
    /\ comm' = TRUE
    /\ ChangePrinterState("Connecting")
    /\ connectTimer' = [connectTimer EXCEPT ![FirstUnused(connectTimer, n)] = "pending"]
    /\ lastResult' = "ok"
    /\ UNCHANGED <<heatingUp, heatingUpTimer, printJob, temperatureChanger, jobLength,
                   shuttingDown, mcHeating, printStarted, cpc, cJoin, heatTimer,
                   rampVars, jobVars>>

\* a doConnect without the test of the shutting-down flag
DoConnectUnguarded(i) ==
    /\ connectTimer[i] = "pending"
    /\ ChangePrinterState("Operational")
    /\ temperatureChanger' = i
    /\ rpc' = [rpc EXCEPT ![i] = "loop"]
    /\ connectTimer' = [connectTimer EXCEPT ![i] = "tool0"]
    /\ UNCHANGED <<comm, heatingUp, heatingUpTimer, printJob, jobLength, shuttingDown,
                   mcHeating, printStarted, callerVars, heatTimer, jobVars,
                   rampStopped, targets, actuals, pending, snapshot>>

\* the Timer fires: lines 58-61 (the TempsChanger it creates has the timer's index)
DoConnect(i) ==
    /\ connectTimer[i] = "pending"
    /\ IF shuttingDown
       THEN /\ connectTimer' = [connectTimer EXCEPT ![i] = "done"]
            /\ UNCHANGED <<state, temperatureChanger, rpc>>
       ELSE /\ ChangePrinterState("Operational")
            /\ temperatureChanger' = i
            /\ rpc' = [rpc EXCEPT ![i] = "loop"]
            /\ connectTimer' = [connectTimer EXCEPT ![i] = "tool0"]
    /\ UNCHANGED <<comm, heatingUp, heatingUpTimer, printJob, jobLength, shuttingDown,
                   mcHeating, printStarted, callerVars, heatTimer, jobVars,
                   rampStopped, targets, actuals, pending, snapshot>>

\* line 64: self.setTemperature('tool0', 25)
DoConnectTool(i) ==
    /\ connectTimer[i] = "tool0"
    /\ Free(ConnectTimer(i))
    /\ SetTemperature(ConnectTimer(i), "tool0", InitialTemp)
    /\ connectTimer' = [connectTimer EXCEPT ![i] = "bed"]
    /\ UNCHANGED <<engineVars, callerVars, heatTimer, jobVars, rpc, rampStopped, snapshot>>

\* line 65: self.setTemperature('bed', 25)
DoConnectBed(i) ==
    /\ connectTimer[i] = "bed"
    /\ Free(ConnectTimer(i))
    /\ SetTemperature(ConnectTimer(i), "bed", InitialTemp)
    /\ connectTimer' = [connectTimer EXCEPT ![i] = "done"]
    /\ UNCHANGED <<engineVars, callerVars, heatTimer, jobVars, rpc, rampStopped, snapshot>>

(* ---------------------------------------------------------------------- *)
(* VirtualComms.disconnect                                                 *)
(* ---------------------------------------------------------------------- *)
\* a disconnect() without the test of self._comm
DisconnectUnguarded ==
    /\ cpc = "idle"
    /\ comm' = FALSE
    /\ lastResult' = IF comm THEN "ok" ELSE "noop"
    /\ IF temperatureChanger # NoRef
       THEN /\ rampStopped' = [rampStopped EXCEPT ![temperatureChanger] = TRUE]
            /\ cpc' = "disconnect_join"
            /\ UNCHANGED state
       ELSE /\ ChangePrinterState("Closed")
            /\ UNCHANGED <<rampStopped, cpc>>
    /\ UNCHANGED <<heatingUp, heatingUpTimer, printJob, temperatureChanger, jobLength,
                   shuttingDown, mcHeating, printStarted, cJoin, timerVars, jobVars,
                   rpc, targets, actuals, pending, snapshot>>

\* lines 71-75: the test of self._comm, and stop() of the TempsChanger
Disconnect ==
    /\ cpc = "idle"
    /\ IF ~comm
       THEN /\ lastResult' = "noop"
            /\ UNCHANGED <<comm, state, rampStopped, cpc>>
       ELSE /\ comm' = FALSE
            /\ lastResult' = "ok"
            /\ IF temperatureChanger # NoRef
               THEN /\ rampStopped' = [rampStopped EXCEPT ![temperatureChanger] = TRUE]
                    /\ cpc' = "disconnect_join"
                    /\ UNCHANGED state
               ELSE /\ ChangePrinterState("Closed")
                    /\ UNCHANGED <<rampStopped, cpc>>
    /\ UNCHANGED <<heatingUp, heatingUpTimer, printJob, temperatureChanger, jobLength,
                   shuttingDown, mcHeating, printStarted, cJoin, timerVars, jobVars,
                   rpc, targets, actuals, pending, snapshot>>

\* line 76: self._temperatureChanger is read again and join() is entered
DisconnectJoin ==
    /\ cpc = "disconnect_join"
    /\ cJoin' = temperatureChanger
    /\ cpc' = "disconnect_wait"
    /\ UNCHANGED <<engineVars, lastResult, timerVars, rampVars, jobVars>>

\* join() returns once the thread has ended; lines 77 and 79
DisconnectDone ==
    /\ cpc = "disconnect_wait"
    /\ ~RampAlive(cJoin)
    /\ temperatureChanger' = NoRef
    /\ ChangePrinterState("Closed")
    /\ cJoin' = NoRef
    /\ cpc' = "idle"
    /\ UNCHANGED <<comm, heatingUp, heatingUpTimer, printJob, jobLength, shuttingDown,
                   mcHeating, printStarted, lastResult, timerVars, rampVars, jobVars>>

(* ---------------------------------------------------------------------- *)
(* JobSimulator                                                            *)
(* ---------------------------------------------------------------------- *)
\* a loop condition that still holds at completion 1.0
AtMostOne(p) == p[1] <= p[2]

\* comparisons of self._percentCompleted, a fraction <<n, d>>, with 1
LessThanOne(p) == p[1] < p[2]
AtLeastOne(p) == p[1] >= p[2]

\* threading.Event.set() on the job's pause gate: a thread blocked in wait() wakes
EventSet(j) ==
    /\ pausedEvent' = [pausedEvent EXCEPT ![j] = TRUE]
    /\ jpc' = [jpc EXCEPT ![j] = IF jpc[j] = "blocked" THEN "check" ELSE jpc[j]]

\* JobSimulator.setPaused(value), lines 346-349
JobSetPaused(j, value) ==
    /\ IF value
       THEN pausedEvent' = [pausedEvent EXCEPT ![j] = FALSE] /\ UNCHANGED jpc
       ELSE EventSet(j)
    /\ pauseRequested' = [pauseRequested EXCEPT ![j] = value]

\* JobSimulator.cancel(), lines 341-343
JobCancel(j) ==
    /\ jobStopped' = [jobStopped EXCEPT ![j] = TRUE]
    /\ IF ~pausedEvent[j]
       THEN JobSetPaused(j, FALSE)
       ELSE UNCHANGED <<pausedEvent, jpc, pauseRequested>>
    /\ cancelledAt' = [cancelledAt EXCEPT ![j] =
                          IF cancelledAt[j] = Absent THEN timeElapsed[j] ELSE cancelledAt[j]]
    /\ cancelledInTick' = [cancelledInTick EXCEPT ![j] =
                          IF cancelledAt[j] = Absent THEN jpc[j] = "tick" ELSE cancelledInTick[j]]

\* line 299: run() opens the gate
JobStart(j) ==
    /\ jpc[j] = "start"
    /\ pausedEvent' = [pausedEvent EXCEPT ![j] = TRUE]
    /\ jpc' = [jpc EXCEPT ![j] = "loop"]
    /\ UNCHANGED <<engineVars, callerVars, timerVars, rampVars, jobStopped, timeElapsed,
                   filePos, currentLayer, consumedFilament, percentCompleted, printDone,
                   printFailed, pauseRequested, cancelledAt, cancelledInTick>>

\* line 301: the loop condition
JobLoop(j) ==
    /\ jpc[j] = "loop"
    /\ jpc' = [jpc EXCEPT ![j] = IF ~jobStopped[j] /\ LessThanOne(percentCompleted[j])
                                 THEN "wait" ELSE "term"]
    /\ UNCHANGED <<engineVars, callerVars, timerVars, rampVars, jobStopped, pausedEvent,
                   timeElapsed, filePos, currentLayer, consumedFilament, percentCompleted,
                   printDone, printFailed, pauseRequested, cancelledAt, cancelledInTick>>

\* line 302: self._pausedEvent.wait() returns at once or blocks
JobWait(j) ==
    /\ jpc[j] = "wait"
    /\ jpc' = [jpc EXCEPT ![j] = IF pausedEvent[j] THEN "check" ELSE "blocked"]
    /\ UNCHANGED <<engineVars, callerVars, timerVars, rampVars, jobStopped, pausedEvent,
                   timeElapsed, filePos, currentLayer, consumedFilament, percentCompleted,
                   printDone, printFailed, pauseRequested, cancelledAt, cancelledInTick>>

\* a loop without the stop test after the wait
JobCheckNoStop(j) ==
    /\ jpc[j] = "check"
    /\ jpc' = [jpc EXCEPT ![j] = "tick"]
    /\ UNCHANGED <<engineVars, callerVars, timerVars, rampVars, jobStopped, pausedEvent,
                   timeElapsed, filePos, currentLayer, consumedFilament, percentCompleted,
                   printDone, printFailed, pauseRequested, cancelledAt, cancelledInTick>>

\* lines 304-305: the stop flag read after the wait
JobCheck(j) ==
    /\ jpc[j] = "check"
    /\ jpc' = [jpc EXCEPT ![j] = IF jobStopped[j] THEN "term" ELSE "tick"]
    /\ UNCHANGED <<engineVars, callerVars, timerVars, rampVars, jobStopped, pausedEvent,
                   timeElapsed, filePos, currentLayer, consumedFilament, percentCompleted,
                   printDone, printFailed, pauseRequested, cancelledAt, cancelledInTick>>

\* line 311: elapsed / jobLength, with jobLength = n/d
Percent(elapsed, length) == <<elapsed * length[2], length[1]>>

\* lines 307-315: one tick
JobTick(j) ==
    /\ jpc[j] = "tick"
    /\ timeElapsed' = [timeElapsed EXCEPT ![j] = @ + 1]
    /\ filePos' = [filePos EXCEPT ![j] = @ + 1]
    /\ currentLayer' = [currentLayer EXCEPT ![j] = @ + 1]
    /\ consumedFilament' = [consumedFilament EXCEPT ![j] = @ + FilamentPerTick]
    /\ percentCompleted' = [percentCompleted EXCEPT ![j] = Percent(timeElapsed'[j], jobLength)]
    /\ jpc' = [jpc EXCEPT ![j] = "loop"]
    /\ UNCHANGED <<engineVars, callerVars, timerVars, rampVars, jobStopped, pausedEvent,
                   printDone, printFailed, pauseRequested, cancelledAt, cancelledInTick>>

\* line 317: the engine is returned to Operational
JobTerm(j) ==
    /\ jpc[j] = "term"
    /\ ChangePrinterState("Operational")
    /\ jpc' = [jpc EXCEPT ![j] = "tool0"]
    /\ UNCHANGED <<comm, heatingUp, heatingUpTimer, printJob, temperatureChanger, jobLength,
                   shuttingDown, mcHeating, printStarted, callerVars, timerVars, rampVars,
                   jobStopped, pausedEvent, timeElapsed, filePos, currentLayer,
                   consumedFilament, percentCompleted, printDone, printFailed,
                   pauseRequested, cancelledAt, cancelledInTick>>

\* lines 318-319 entering setTemperature: line 149, the test of self._temperatureChanger
JobTempTest(j, ch, next) ==
    /\ jpc[j] = ch
    /\ Free(JobThread(j))
    /\ jpc' = [jpc EXCEPT ![j] = IF temperatureChanger = NoRef THEN next ELSE ch \o "_call"]
    /\ UNCHANGED <<engineVars, callerVars, timerVars, rampVars, jobStopped, pausedEvent,
                   timeElapsed, filePos, currentLayer, consumedFilament, percentCompleted,
                   printDone, printFailed, pauseRequested, cancelledAt, cancelledInTick>>

\* line 150: self._temperatureChanger is read again; disconnect() may have set it
\* to None since line 149, and None.setTarget raises AttributeError in the job thread
JobTempCall(j, ch, next) ==
    /\ jpc[j] = ch \o "_call"
    /\ IF temperatureChanger = NoRef
       THEN /\ jpc' = [jpc EXCEPT ![j] = "crashed"]
            /\ UNCHANGED <<targets, actuals, pending>>
       ELSE /\ SetTarget(JobThread(j), temperatureChanger, ch, 0)
            /\ jpc' = [jpc EXCEPT ![j] = next]
    /\ UNCHANGED <<engineVars, callerVars, timerVars, rpc, rampStopped, snapshot,
                   jobStopped, pausedEvent, timeElapsed, filePos, currentLayer,
                   consumedFilament, percentCompleted, printDone, printFailed,
                   pauseRequested, cancelledAt, cancelledInTick>>

\* lines 321-338: the outcome event, then the thread ends
JobOutcome(j) ==
    /\ jpc[j] = "out"
    /\ Free(JobThread(j))
    /\ IF AtLeastOne(percentCompleted[j])
       THEN printDone' = [printDone EXCEPT ![j] = @ + 1] /\ UNCHANGED printFailed
       ELSE printFailed' = [printFailed EXCEPT ![j] = @ + 1] /\ UNCHANGED printDone
    /\ jpc' = [jpc EXCEPT ![j] = "dead"]
    /\ UNCHANGED <<engineVars, callerVars, timerVars, rampVars, jobStopped, pausedEvent,
                   timeElapsed, filePos, currentLayer, consumedFilament, percentCompleted,
                   pauseRequested, cancelledAt, cancelledInTick>>

(* ---------------------------------------------------------------------- *)
(* VirtualComms.startPrint and its Timer callback heatupDone                *)
(* ---------------------------------------------------------------------- *)
\* lines 82-96: the test (and the raise), Printing, PRINT_STARTED, tool0 target;
\* at most n successful calls are followed
StartPrint(n) ==
    /\ cpc = "idle"
    /\ IF printJob # NoRef /\ JobAlive(printJob)
       THEN /\ lastResult' = "JobAlreadyRunning"
            /\ UNCHANGED <<state, printStarted, cpc, targets, actuals, pending>>
       ELSE /\ FirstUnused(heatTimer, n) # 0
            /\ lastResult' = "ok"
            /\ ChangePrinterState("Printing")
            /\ printStarted' = printStarted + 1
            /\ SetTemperature(Caller, "tool0", PrintToolTemp)
            /\ cpc' = "startPrint_bed"
    /\ UNCHANGED <<comm, heatingUp, heatingUpTimer, printJob, temperatureChanger, jobLength,
                   shuttingDown, mcHeating, cJoin, timerVars, jobVars,
                   rpc, rampStopped, snapshot>>

\* line 97
StartPrintBed ==
    /\ cpc = "startPrint_bed"
    /\ Free(Caller)
    /\ SetTemperature(Caller, "bed", PrintBedTemp)
    /\ cpc' = "startPrint_heat"
    /\ UNCHANGED <<engineVars, cJoin, lastResult, timerVars, jobVars, rpc, rampStopped, snapshot>>

\* lines 98-99
StartPrintHeat ==
    /\ cpc = "startPrint_heat"
    /\ Free(Caller)
    /\ mcHeating' = TRUE
    /\ heatingUp' = TRUE
    /\ cpc' = "startPrint_timer"
    /\ UNCHANGED <<comm, state, heatingUpTimer, printJob, temperatureChanger, jobLength,
                   shuttingDown, printStarted, cJoin, lastResult, timerVars, rampVars, jobVars>>

\* lines 109-111 (the JobSimulator the timer will create has the timer's index)
StartPrintTimer ==
    /\ cpc = "startPrint_timer"
    /\ printJob' = NoRef
    /\ heatingUpTimer' = FirstUnused(heatTimer, MaxJobs)
    /\ heatTimer' = [heatTimer EXCEPT ![FirstUnused(heatTimer, MaxJobs)] = "pending"]
    /\ cpc' = "idle"
    /\ UNCHANGED <<comm, state, heatingUp, temperatureChanger, jobLength, shuttingDown,
                   mcHeating, printStarted, cJoin, lastResult, connectTimer, rampVars, jobVars>>

\* the Timer fires: lines 102-104
HeatupDone(i) ==
    /\ heatTimer[i] = "pending"
    /\ IF shuttingDown
       THEN /\ heatTimer' = [heatTimer EXCEPT ![i] = "done"]
            /\ UNCHANGED <<mcHeating, heatingUp>>
       ELSE /\ mcHeating' = FALSE
            /\ heatingUp' = FALSE
            /\ heatTimer' = [heatTimer EXCEPT ![i] = "fired"]
    /\ UNCHANGED <<comm, state, heatingUpTimer, printJob, temperatureChanger, jobLength,
                   shuttingDown, printStarted, callerVars, connectTimer, rampVars, jobVars>>

\* lines 105-107: the JobSimulator is created and started
HeatupDoneJob(i) ==
    /\ heatTimer[i] = "fired"
    /\ heatingUpTimer' = NoRef
    /\ printJob' = i
    /\ jpc' = [jpc EXCEPT ![i] = "start"]
    /\ heatTimer' = [heatTimer EXCEPT ![i] = "done"]
    /\ UNCHANGED <<comm, state, heatingUp, temperatureChanger, jobLength, shuttingDown,
                   mcHeating, printStarted, callerVars, connectTimer, rampVars,
                   jobStopped, pausedEvent, timeElapsed, filePos, currentLayer,
                   consumedFilament, percentCompleted, printDone, printFailed,
                   pauseRequested, cancelledAt, cancelledInTick>>

(* ---------------------------------------------------------------------- *)
(* VirtualComms.setPaused                                                  *)
(* ---------------------------------------------------------------------- *)
\* lines 226-235 as run by the caller
DoSetPaused(paused) ==
    /\ ChangePrinterState(IF paused THEN "Paused" ELSE "Printing")
    /\ IF printJob # NoRef
       THEN JobSetPaused(printJob, paused)
       ELSE UNCHANGED <<pausedEvent, jpc, pauseRequested>>

SetPaused(paused) ==
    /\ cpc = "idle"
    /\ DoSetPaused(paused)
    /\ lastResult' = "ok"
    /\ UNCHANGED <<comm, heatingUp, heatingUpTimer, printJob, temperatureChanger, jobLength,
                   shuttingDown, mcHeating, printStarted, cpc, cJoin, timerVars, rampVars,
                   jobStopped, timeElapsed, filePos, currentLayer, consumedFilament,
                   percentCompleted, printDone, printFailed, cancelledAt, cancelledInTick>>

(* ---------------------------------------------------------------------- *)
(* VirtualComms.executeCancelCommands                                      *)
(* ---------------------------------------------------------------------- *)
\* PrinterCommsService.isPaused
IsPaused == state = "Paused"

\* lines 114-115
Cancel ==
    /\ cpc = "idle"
    /\ lastResult' = "ok"
    /\ IF printJob # NoRef
       THEN JobCancel(printJob)
       ELSE UNCHANGED <<jobStopped, pausedEvent, jpc, pauseRequested, cancelledAt,
                        cancelledInTick>>
    /\ cpc' = "cancel_paused"
    /\ UNCHANGED <<engineVars, cJoin, timerVars, rampVars, timeElapsed, filePos,
                   currentLayer, consumedFilament, percentCompleted, printDone, printFailed>>

\* line 117: the test of isPaused
CancelPaused ==
    /\ cpc = "cancel_paused"
    /\ cpc' = IF IsPaused THEN "cancel_unpause" ELSE "cancel_timer"
    /\ UNCHANGED <<engineVars, cJoin, lastResult, timerVars, rampVars, jobVars>>

\* line 118: setPause(False)
CancelUnpause ==
    /\ cpc = "cancel_unpause"
    /\ DoSetPaused(FALSE)
    /\ cpc' = "cancel_timer"
    /\ UNCHANGED <<comm, heatingUp, heatingUpTimer, printJob, temperatureChanger, jobLength,
                   shuttingDown, mcHeating, printStarted, cJoin, lastResult, timerVars, rampVars,
                   jobStopped, timeElapsed, filePos, currentLayer, consumedFilament,
                   percentCompleted, printDone, printFailed, cancelledAt, cancelledInTick>>

\* line 120: the test of self._heatingUpTimer
CancelTimer ==
    /\ cpc = "cancel_timer"
    /\ cpc' = IF heatingUpTimer # NoRef THEN "cancel_heatup" ELSE "idle"
    /\ UNCHANGED <<engineVars, cJoin, lastResult, timerVars, rampVars, jobVars>>

\* lines 121-124.  self._heatingUpTimer is read again at line 121: heatupDone may
\* have set it to None since line 120, and None.cancel() raises AttributeError.
\* Timer.cancel() stops a timer that has not fired and does nothing to one that has.
CancelHeatup ==
    /\ cpc = "cancel_heatup"
    /\ IF heatingUpTimer = NoRef
       THEN /\ lastResult' = "AttributeError"
            /\ cpc' = "idle"
            /\ UNCHANGED <<heatTimer, heatingUpTimer, mcHeating, targets, actuals, pending>>
       ELSE /\ heatTimer' = [heatTimer EXCEPT ![heatingUpTimer] =
                                IF @ = "pending" THEN "cancelled" ELSE @]
            /\ heatingUpTimer' = NoRef
            /\ mcHeating' = FALSE
            /\ SetTemperature(Caller, "tool0", 0)
            /\ cpc' = "cancel_bed"
            /\ UNCHANGED lastResult
    /\ UNCHANGED <<comm, state, heatingUp, printJob, temperatureChanger, jobLength,
                   shuttingDown, printStarted, cJoin, connectTimer, rpc, rampStopped,
                   snapshot, jobVars>>

\* line 125
CancelBed ==
    /\ cpc = "cancel_bed"
    /\ Free(Caller)
    /\ SetTemperature(Caller, "bed", 0)
    /\ cpc' = "cancel_sleep"
    /\ UNCHANGED <<engineVars, cJoin, lastResult, timerVars, jobVars, rpc, rampStopped, snapshot>>

\* lines 126-127
CancelOperational ==
    /\ cpc = "cancel_sleep"
    /\ Free(Caller)
    /\ ChangePrinterState("Operational")
    /\ cpc' = "idle"
    /\ UNCHANGED <<comm, heatingUp, heatingUpTimer, printJob, temperatureChanger, jobLength,
                   shuttingDown, mcHeating, printStarted, cJoin, lastResult, timerVars,
                   rampVars, jobVars>>

(* ---------------------------------------------------------------------- *)
(* VirtualComms.setTemperature called by the host                          *)
(* ---------------------------------------------------------------------- *)
\* lines 147-150
SetTemperatureCall(ch, v) ==
    /\ cpc = "idle"
    /\ Free(Caller)
    /\ SetTemperature(Caller, ch, v)
    /\ lastResult' = "ok"
    /\ UNCHANGED <<engineVars, cpc, cJoin, timerVars, jobVars, rpc, rampStopped, snapshot>>

(* ---------------------------------------------------------------------- *)
(* The host                                                                *)
(* ---------------------------------------------------------------------- *)
\* the printer manager starts shutting down
Shutdown ==
    /\ ~shuttingDown
    /\ shuttingDown' = TRUE
    /\ UNCHANGED <<comm, state, heatingUp, heatingUpTimer, printJob, temperatureChanger,
                   jobLength, mcHeating, printStarted, callerVars, timerVars, rampVars, jobVars>>

(* ---------------------------------------------------------------------- *)
(* The engine: every call, timer and worker thread                         *)
(* ---------------------------------------------------------------------- *)
\* job durations of the settings file: 1..MaxJobLength, and one that is not whole
JobLengths == {<<n, 1>> : n \in 1..MaxJobLength} \cup {<<3, 2>>}

NoTemps == [ch \in Channels |-> Absent]

InitCommon ==
    /\ heatingUp = FALSE
    /\ heatingUpTimer = NoRef
    /\ printJob = NoRef
    /\ shuttingDown = FALSE
    /\ mcHeating = FALSE
    /\ printStarted = 0
    /\ snapshot = [ch \in Channels |-> <<Absent, Absent>>]
    /\ cpc = "idle"
    /\ cJoin = NoRef
    /\ lastResult = "none"
    /\ heatTimer = [i \in Jobs |-> "none"]
    /\ rampStopped = [r \in Ramps |-> FALSE]
    /\ pending = {}
    /\ jpc = [j \in Jobs |-> "none"]
    /\ jobStopped = [j \in Jobs |-> FALSE]
    /\ pausedEvent = [j \in Jobs |-> FALSE]
    /\ timeElapsed = [j \in Jobs |-> 0]
    /\ filePos = [j \in Jobs |-> 0]
    /\ currentLayer = [j \in Jobs |-> 0]
    /\ consumedFilament = [j \in Jobs |-> 0]
    /\ percentCompleted = [j \in Jobs |-> <<0, 1>>]
    /\ printDone = [j \in Jobs |-> 0]
    /\ printFailed = [j \in Jobs |-> 0]
    /\ pauseRequested = [j \in Jobs |-> FALSE]
    /\ cancelledAt = [j \in Jobs |-> Absent]
    /\ cancelledInTick = [j \in Jobs |-> FALSE]

\* initPrinterCommsService, lines 45-51, and the constructors' values
Init ==
    /\ InitCommon
    /\ comm = FALSE
    /\ state = "Disconnected"
    /\ temperatureChanger = NoRef
    /\ jobLength \in JobLengths
    /\ connectTimer = [i \in Ramps |-> "none"]
    /\ rpc = [r \in Ramps |-> "none"]
    /\ targets = [r \in Ramps |-> NoTemps]
    /\ actuals = [r \in Ramps |-> NoTemps]

\* temperatures the host asks for: off, one that is no multiple of the step, warm
ApiTemps == {0, 12, InitialTemp}

ConnectionCalls(n) ==
    \/ Connect(n)
    \/ Disconnect \/ DisconnectJoin \/ DisconnectDone

PrintCalls(n) ==
    \/ StartPrint(n) \/ StartPrintBed \/ StartPrintHeat \/ StartPrintTimer
    \/ \E paused \in BOOLEAN : SetPaused(paused)
    \/ Cancel \/ CancelPaused \/ CancelUnpause \/ CancelTimer
    \/ CancelHeatup \/ CancelBed \/ CancelOperational

ConnectTimers == \E i \in Ramps : DoConnect(i) \/ DoConnectTool(i) \/ DoConnectBed(i)

HeatTimers == \E i \in Jobs : HeatupDone(i) \/ HeatupDoneJob(i)

\* the TempsChanger threads, ticking while their actuals are low
RampThreads ==
    \E r \in Ramps : (RampEnter(r) /\ WithinRampBound(r)) \/ RampExit(r) \/ RampBody(r)

\* the TempsChanger threads, ticking freely
RampThreadsFree == \E r \in Ramps : RampEnter(r) \/ RampExit(r) \/ RampBody(r)

SetTargets == \E th \in Threads : FinishSetTarget(th)

\* JobSimulator.run where no TempsChanger exists: line 150 is not reached
JobRunNoRamp(j) ==
    \/ JobStart(j) \/ JobLoop(j) \/ JobWait(j) \/ JobCheck(j) \/ JobTick(j)
    \/ JobTerm(j)
    \/ JobTempTest(j, "tool0", "bed") \/ JobTempTest(j, "bed", "out")
    \/ JobOutcome(j)

JobThreadsNoRamp == \E j \in Jobs : JobRunNoRamp(j)

\* the JobSimulator threads
JobThreads ==
    \/ JobThreadsNoRamp
    \/ \E j \in Jobs : JobTempCall(j, "tool0", "bed") \/ JobTempCall(j, "bed", "out")

\* every call, timer and thread of the engine
Next ==
    \/ ConnectionCalls(MaxConnects)
    \/ PrintCalls(MaxJobs)
    \/ \E ch \in Channels, v \in ApiTemps : SetTemperatureCall(ch, v)
    \/ ConnectTimers
    \/ HeatTimers
    \/ RampThreads
    \/ JobThreads
    \/ SetTargets
    \/ Shutdown

Spec == Init /\ [][Next]_vars

(* ---------------------------------------------------------------------- *)
(* Parts of the engine                                                     *)
(* ---------------------------------------------------------------------- *)
\* one job duration, for the specifications in which no job is started
InitNoJob == Init /\ jobLength = <<1, 1>>

\* the engine when connect() has just returned: lines 54-55 and 67-68 have run
InitConnecting ==
    /\ InitCommon
    /\ comm = TRUE
    /\ state = "Connecting"
    /\ temperatureChanger = NoRef
    /\ jobLength = <<1, 1>>
    /\ connectTimer = [i \in Ramps |-> IF i = 1 THEN "pending" ELSE "none"]
    /\ rpc = [r \in Ramps |-> "none"]
    /\ targets = [r \in Ramps |-> NoTemps]
    /\ actuals = [r \in Ramps |-> NoTemps]

\* one connection, from connect() to disconnect(): its TempsChanger ticks freely
\* while doConnect and the host set targets
RampNext ==
    \/ \E ch \in Channels, v \in ApiTemps : SetTemperatureCall(ch, v)
    \/ Disconnect \/ DisconnectJoin \/ DisconnectDone
    \/ ConnectTimers
    \/ RampThreadsFree
    \/ SetTargets

SpecRamp == InitConnecting /\ [][RampNext]_vars

\* connecting and disconnecting, no printing
ConnNext ==
    \/ ConnectionCalls(MaxSoloConnects)
    \/ ConnectTimers
    \/ RampThreads
    \/ SetTargets

SpecConn == InitNoJob /\ [][ConnNext]_vars

\* connecting again and again, with disconnect() at any time: MaxConnects
\* connect() calls
ReconnectNext ==
    \/ ConnectionCalls(MaxConnects)
    \/ ConnectTimers
    \/ RampThreads
    \/ SetTargets

SpecReconnect == InitNoJob /\ [][ReconnectNext]_vars

\* startPrint called again and again on an engine that is never connected
\* (setTemperature finds no TempsChanger), MaxJobs jobs
RestartNext ==
    \/ StartPrint(MaxJobs) \/ StartPrintBed \/ StartPrintHeat \/ StartPrintTimer
    \/ HeatTimers
    \/ JobThreadsNoRamp

SpecRestart == Init /\ [][RestartNext]_vars

\* printing on an engine that is never connected: every startPrint, setPaused
\* and cancel, MaxSoloJobs jobs
JobNext ==
    \/ PrintCalls(MaxSoloJobs)
    \/ HeatTimers
    \/ JobThreadsNoRamp

SpecJob == Init /\ [][JobNext]_vars

\* one connection and one job that is neither paused nor cancelled, with
\* disconnect() at any time
TeardownNext ==
    \/ ConnectionCalls(MaxSoloConnects)
    \/ StartPrint(MaxSoloJobs) \/ StartPrintBed \/ StartPrintHeat \/ StartPrintTimer
    \/ ConnectTimers
    \/ HeatTimers
    \/ RampThreads
    \/ JobThreads
    \/ SetTargets

SpecTeardown == Init /\ [][TeardownNext]_vars

\* connect() and startPrint(), their timers, and the host that may start
\* shutting down at any time; the threads the callbacks start have not been
\* scheduled yet
ShutdownNext ==
    \/ Connect(MaxSoloConnects)
    \/ StartPrint(MaxSoloJobs) \/ StartPrintBed \/ StartPrintHeat \/ StartPrintTimer
    \/ ConnectTimers
    \/ HeatTimers
    \/ SetTargets
    \/ Shutdown

SpecShutdown == InitNoJob /\ [][ShutdownNext]_vars

\* no job has been cancelled yet
NoCancelYet == \A j \in Jobs : cancelledAt[j] = Absent

\* a print that is paused and then cancelled, the cancel being the last command:
\* cancel() is called on a paused engine whose job thread is alive, and no call
\* is started after it
CancelLastNext ==
    \/ NoCancelYet /\ StartPrint(MaxSoloJobs)
    \/ StartPrintBed \/ StartPrintHeat \/ StartPrintTimer
    \/ \E paused \in BOOLEAN : NoCancelYet /\ SetPaused(paused)
    \/ NoCancelYet /\ IsPaused /\ printJob # NoRef /\ JobAlive(printJob) /\ Cancel
    \/ CancelPaused \/ CancelUnpause \/ CancelTimer
    \/ HeatTimers
    \/ JobThreadsNoRamp

SpecCancelLast == Init /\ [][CancelLastNext]_vars

\* the calls in progress return, the timers fire and the threads run
FairJob ==
    /\ SpecJob
    /\ WF_vars(StartPrintBed \/ StartPrintHeat \/ StartPrintTimer)
    /\ WF_vars(CancelPaused \/ CancelUnpause \/ CancelTimer
               \/ CancelHeatup \/ CancelBed \/ CancelOperational)
    /\ WF_vars(HeatTimers)
    /\ \A j \in Jobs : WF_vars(JobRunNoRamp(j))

(* ---------------------------------------------------------------------- *)
(* Properties                                                              *)
(* ---------------------------------------------------------------------- *)
LoopExited(j) == jpc[j] \in {"term", "tool0", "tool0_call", "bed", "bed_call",
                             "out", "dead", "crashed"}
ThreadEnded(j) == jpc[j] \in {"dead", "crashed"}

\* C1: startPrint called while the thread of a JobSimulator of an earlier
\* startPrint is alive raises the job-already-running error and changes nothing:
\* state, targets, heating flag, heat-up timer, job reference, no PRINT_STARTED.
C1_StartWhileAliveFails ==
    [][(StartPrint(MaxJobs) /\ \E j \in Jobs : JobAlive(j))
        => /\ lastResult' = "JobAlreadyRunning"
           /\ UNCHANGED <<state, targets, heatingUp, mcHeating, heatingUpTimer,
                          printJob, printStarted>>]_vars

\* C2: startPrint called after the previous job completed, or after cancel()
\* returned for it, does not raise and sets the state to Printing.
C2_StartAfterEndSucceeds ==
    [][(/\ StartPrint(MaxSoloJobs)
        /\ printJob # NoRef
        /\ \/ percentCompleted[printJob][1] >= percentCompleted[printJob][2]
           \/ jobStopped[printJob])
        => (lastResult' = "ok" /\ state' = "Printing")]_vars

\* C3: a JobSimulator whose loop has exited and whose thread has ended has fired
\* exactly one of PRINT_DONE and PRINT_FAILED, once, and PRINT_DONE exactly when
\* its completion is at least 1.0.
C3_ExactlyOneOutcome ==
    \A j \in Jobs :
        ThreadEnded(j) =>
            /\ printDone[j] + printFailed[j] = 1
            /\ printDone[j] = 1 <=> percentCompleted[j][1] >= percentCompleted[j][2]

\* C4: a JobSimulator whose stop flag is set always ends, with exactly one of
\* PRINT_DONE and PRINT_FAILED fired; it never stays blocked on the pause gate.
C4_CancelTerminates ==
    \A j \in Jobs :
        (jobStopped[j] /\ JobAlive(j)) ~> (jpc[j] = "dead" /\ printDone[j] + printFailed[j] = 1)

\* C5: once disconnect() has returned and until connect() is called again, no
\* TempsChanger thread is running (none can call mcTempUpdate).
C5_RampStoppedAfterDisconnect ==
    (~comm /\ cpc = "idle") => \A r \in Ramps : ~RampAlive(r)

\* C6: a job's elapsed time changes only by one tick at a time and never between
\* setPaused(true) and the following setPaused(false).
C6_NoTickWhilePaused ==
    [][\A j \in Jobs :
          timeElapsed'[j] # timeElapsed[j]
              => (~pauseRequested[j] /\ timeElapsed'[j] = timeElapsed[j] + 1)]_vars

\* the temperature after k ticks toward a target, from a cold start
RECURSIVE RampAfter(_, _)
RampAfter(target, k) == IF k = 0 THEN 0 ELSE Nudge(RampAfter(target, k - 1), target)

C8_WholeJobRuns ==
    \A j \in Jobs :
        (jobLength[2] = 1 /\ ~jobStopped[j]) =>
            /\ timeElapsed[j] <= jobLength[1]
            /\ currentLayer[j] = timeElapsed[j]
            /\ filePos[j] = timeElapsed[j]
            /\ consumedFilament[j] = 10 * timeElapsed[j]
            /\ printFailed[j] = 0
            /\ LoopExited(j) => timeElapsed[j] = jobLength[1]
            /\ jpc[j] = "dead" <=> printDone[j] = 1

\* C8 happens: the job of duration 3 has ended with PRINT_DONE, layer 3, time 3
\* and filament 30, without a pause in force and without a cancel
C8_Witness ==
    /\ jobLength = <<3, 1>>
    /\ jpc[1] = "dead" /\ printDone[1] = 1 /\ printFailed[1] = 0
    /\ timeElapsed[1] = 3 /\ currentLayer[1] = 3 /\ consumedFilament[1] = 30
    /\ ~jobStopped[1] /\ ~pauseRequested[1]

\* cancel() was called on job j while its completion was below 1.0
CancelledEarly(j) ==
    /\ cancelledAt[j] # Absent
    /\ cancelledAt[j] * jobLength[2] < jobLength[1]

\* C9 as stated: a job cancelled while its completion is below 1.0 counts no
\* tick after the cancel and never ends with PRINT_DONE.
C9_NoTickAfterCancel ==
    \A j \in Jobs :
        CancelledEarly(j) => (timeElapsed[j] = cancelledAt[j] /\ printDone[j] = 0)

\* C9 as amended: after cancel() the only tick still counted is one that had
\* passed the stop test of line 304 when cancel() was called; the job ends with
\* elapsed time equal to the ticks counted at the cancel plus that tick, with
\* PRINT_FAILED if its completion is then below 1.0 and PRINT_DONE otherwise.
C9_AtMostTheTickInFlight ==
    \A j \in Jobs :
        CancelledEarly(j) =>
            /\ timeElapsed[j] >= cancelledAt[j]
            /\ timeElapsed[j] <= cancelledAt[j] + (IF cancelledInTick[j] THEN 1 ELSE 0)
            /\ jpc[j] = "tick" => timeElapsed[j] = cancelledAt[j]
            /\ LoopExited(j) =>
                   timeElapsed[j] = cancelledAt[j] + (IF cancelledInTick[j] THEN 1 ELSE 0)
            /\ jpc[j] = "dead" =>
                   IF timeElapsed[j] * jobLength[2] < jobLength[1]
                   THEN printFailed[j] = 1 /\ printDone[j] = 0
                   ELSE printFailed[j] = 0 /\ printDone[j] = 1
            /\ (jpc[j] = "dead" /\ ~cancelledInTick[j]) => printFailed[j] = 1

\* C9 happens: cancel() during the sleep after the first tick, PRINT_FAILED with
\* elapsed time 1
C9_Witness ==
    /\ jpc[1] = "dead" /\ printFailed[1] = 1 /\ printDone[1] = 0
    /\ cancelledAt[1] = 1 /\ ~cancelledInTick[1] /\ timeElapsed[1] = 1
    /\ jobLength[1] > jobLength[2]

\* C10: disconnect() called while not connected changes nothing, and when
\* disconnect() returns the engine is not connected, so that a second call
\* changes nothing either and the state is set to Closed once.
C10_DisconnectIdempotent ==
    /\ [][(Disconnect /\ ~comm) =>
            UNCHANGED <<engineVars, cpc, cJoin, timerVars, rampVars, jobVars>>]_vars
    /\ [][((Disconnect \/ DisconnectDone) /\ cpc' = "idle") => ~comm']_vars

\* C10 happens: a second disconnect() right after the first found nothing to do
C10_Witness ==
    /\ lastResult = "noop" /\ cpc = "idle"
    /\ state = "Closed" /\ ~comm /\ temperatureChanger = NoRef
    /\ \E r \in Ramps : rpc[r] = "dead"

\* a step of executeCancelCommands, from the call to its return
CancelStep ==
    \/ Cancel \/ CancelPaused \/ CancelUnpause \/ CancelTimer
    \/ CancelHeatup \/ CancelBed \/ CancelOperational

\* no JobSimulator thread is alive and no heat-up timer is waiting or firing
NothingActive ==
    /\ \A j \in Jobs : ~JobAlive(j)
    /\ \A i \in Jobs : heatTimer[i] \notin {"pending", "fired"}

\* C11: cancel() called when nothing is active (no JobSimulator thread alive, no
\* heat-up timer pending) raises no error and changes neither the printer state,
\* nor the temperature targets, nor the heating report, in any of its steps.
C11_CancelIdleIsNoOp ==
    [][(NothingActive /\ CancelStep)
        => /\ state' = state
           /\ targets' = targets
           /\ mcHeating' = mcHeating
           /\ lastResult' # "AttributeError"]_vars

\* the print started last: the timer of the latest successful startPrint
LastPrint == CHOOSE i \in Jobs \cup {NoRef} :
                 /\ i # NoRef => heatTimer[i] # "none"
                 /\ \A k \in Jobs : heatTimer[k] # "none" => k <= i

\* C12: when cancel() returns from its heat-up branch (a heat-up timer was
\* referenced, the print was still heating up) the state is Operational, heating
\* has been reported cleared, both targets are 0 and the timer of that print has
\* been stopped before its callback ran; a stopped timer never creates a job.
C12_CancelledHeatupNeverRuns ==
    /\ [][CancelOperational =>
            /\ state' = "Operational"
            /\ ~mcHeating'
            /\ temperatureChanger # NoRef =>
                   \A ch \in Channels : targets'[temperatureChanger][ch] = 0
            /\ heatTimer'[LastPrint] = "cancelled"
            /\ jpc'[LastPrint] = "none"]_vars
    /\ [][\A i \in Jobs : heatTimer[i] = "cancelled" =>
            (heatTimer'[i] = "cancelled" /\ jpc'[i] = "none")]_vars

\* C13: at most one JobSimulator thread is alive, and a JobSimulator whose thread
\* is alive is the one self._printJob refers to.
C13_AtMostOneJobAlive ==
    /\ Cardinality({j \in Jobs : JobAlive(j)}) <= 1
    /\ \A j \in Jobs : JobAlive(j) => printJob = j

\* C14: when a disconnect() of a connected engine returns, the state is Closed,
\* no JobSimulator thread is alive and no heat-up timer is waiting or firing;
\* and no step of a job thread or of a heat-up timer takes a disconnected engine
\* out of Closed.
C14_NoJobAfterDisconnect ==
    /\ [][(((Disconnect /\ comm) \/ DisconnectDone) /\ cpc' = "idle") =>
            /\ state' = "Closed"
            /\ \A j \in Jobs : jpc'[j] \in {"none", "dead", "crashed"}
            /\ \A i \in Jobs : heatTimer'[i] \notin {"pending", "fired"}]_vars
    /\ [][(~comm /\ state = "Closed" /\ (JobThreads \/ HeatTimers)) =>
            state' = "Closed"]_vars

\* C15: at most one TempsChanger thread is running, and a TempsChanger whose
\* thread is running is the one self._temperatureChanger refers to.
C15_AtMostOneRampAlive ==
    /\ Cardinality({r \in Ramps : RampAlive(r)}) <= 1
    /\ \A r \in Ramps : RampAlive(r) => temperatureChanger = r

\* C16: whenever a TempsChanger thread is about to run the body of its loop,
\* every channel that has a target has an actual, and no TempsChanger thread
\* ends by reading the actual of a channel that has none (KeyError).
C16_TargetsHaveActuals ==
    \A r \in Ramps :
        /\ rpc[r] # "crashed"
        /\ rpc[r] = "body" => \A ch \in TargetKeys(r) : actuals[r][ch] # Absent

\* C17: a connect timer that fires while the host is shutting down leaves the
\* state and the TempsChanger reference alone and creates no TempsChanger; a
\* heat-up timer that fires while the host is shutting down leaves the heating
\* report and flag alone and creates no JobSimulator; both callbacks end there.
C17_ShutdownSkipsCallbacks ==
    /\ [][\A i \in Ramps : (DoConnect(i) /\ shuttingDown) =>
            /\ UNCHANGED <<state, temperatureChanger, rpc, rampStopped, targets, actuals>>
            /\ connectTimer'[i] = "done"]_vars
    /\ [][\A i \in Jobs : (HeatupDone(i) /\ shuttingDown) =>
            /\ UNCHANGED <<mcHeating, heatingUp, heatingUpTimer, printJob, jpc>>
            /\ heatTimer'[i] = "done"]_vars

\* C17 happens: both timers were started, the host began shutting down, both
\* fired: still Printing and heating, no TempsChanger and no JobSimulator
C17_Witness ==
    /\ shuttingDown
    /\ connectTimer[1] = "done" /\ rpc[1] = "none" /\ temperatureChanger = NoRef
    /\ heatTimer[1] = "done" /\ jpc[1] = "none" /\ printJob = NoRef
    /\ heatingUp /\ mcHeating /\ heatingUpTimer = 1 /\ state = "Printing"

\* C18: the completion of a JobSimulator is its elapsed ticks divided by the job
\* duration and lies between 0.0 and 1.0 in every state, for every duration of
\* the settings, whole or not.
C18_CompletionWithinUnit ==
    \A j \in Jobs :
        /\ percentCompleted[j][1] >= 0
        /\ percentCompleted[j][1] <= percentCompleted[j][2]
        /\ percentCompleted[j][1] * jobLength[1]
               = timeElapsed[j] * jobLength[2] * percentCompleted[j][2]

\* C19: once cancel() has been called on a paused job and has returned, and the
\* job's thread has ended, the printer state is Operational (no further command
\* is issued): the engine is not left in Printing or Paused with no job alive.
C19_OperationalAfterCancel ==
    (/\ cpc = "idle"
     /\ \E j \in Jobs : cancelledAt[j] # Absent
     /\ \A j \in Jobs : ~JobAlive(j)) => state = "Operational"

\* C20: while the printer state is Paused, the pause gate of every JobSimulator
\* whose thread is alive (and that has not been cancelled) is closed, and no
\* JobSimulator counts a tick.
C20_PausedMeansGateClosed ==
    /\ [](\A j \in Jobs :
            (state = "Paused" /\ JobAlive(j) /\ ~jobStopped[j]) => ~pausedEvent[j])
    /\ [][\A j \in Jobs : state = "Paused" => timeElapsed'[j] = timeElapsed[j]]_vars

====
